---- MODULE Spec2Model ----
(***************************************************************************)
(* A model of cacher.go (package cacher): Save, Restore and HashFiles of   *)
(* the GCS build cache, run by independent processes against one shared    *)
(* bucket.  Every process owns its local directory; the bucket is the only *)
(* shared state.  A process is one run of the command line: it performs    *)
(* one operation and exits.  Store calls and local I/O are the suspension  *)
(* points of an operation, so each of them is one atomic step of the model.*)
(***************************************************************************)
EXTENDS Integers, Sequences, FiniteSets, TLC

\* ------------------------------------------------------------------ bounds
MaxFaults == 1     \* injected failures (transport, local I/O, cancellation) per run
InitTime == 2      \* the store's clock at Init: objects that exist then are from 1..InitTime
MaxTime == 3       \* latest timestamp the store's clock reaches
MaxKeys == 2       \* longest list of keys given to Restore
MaxPaths == 2      \* longest list of paths given to HashFiles

\* ------------------------------------------------------------ the universe
Procs == {"p1", "p2"}
None == [none |-> TRUE]          \* Go's nil (of a pointer, a record)
NoKind == "none"                 \* no error, where only the kind of an error is kept

\* Strings are sequences of characters, so that a prefix is a real prefix.
EmptyStr == << >>
Bucket == <<"g">>
Dir == <<"w">>
BucketArgs == {EmptyStr, Bucket}
DirArgs == {EmptyStr, Dir}
ObjNames == {<<"a">>, <<"a", "b">>, <<"b">>}
KeyArgs == {EmptyStr} \cup ObjNames

Min(a, b) == IF a < b THEN a ELSE b

SeqsUpTo(S, n) == UNION {[1..k -> S] : k \in 0..n}

Perms(S) == {s \in [1..Cardinality(S) -> S] : \A i, j \in 1..Cardinality(S) : s[i] = s[j] => i = j}

\* strings.HasPrefix, as the store applies it to Query.Prefix
HasPrefix(name, prefix) ==
    /\ Len(prefix) <= Len(name)
    /\ SubSeq(name, 1, Len(prefix)) = prefix

\* An error value: the step that failed, the kind of its cause, and the keys
\* the message names.  A returned error is the sequence of the errors it
\* carries (<< >> is nil); fmt.Errorf with two verbs carries two.
Err(op, kind, what) == [op |-> op, kind |-> kind, what |-> what]
NoErr == << >>

\* --------------------------------------------------- local directory trees
\* The tree under dir of one process: a function from the paths that exist
\* (relative to dir, << >> is dir itself) to their nodes.  No path exists
\* when dir does not.
DirNode == [type |-> "dir", data |-> << >>, mode |-> "0755", link |-> << >>]
RegNode(data, mode) == [type |-> "reg", data |-> data, mode |-> mode, link |-> << >>]
SymNode(link) == [type |-> "symlink", data |-> << >>, mode |-> "0777", link |-> link]

NoDir == << >>                              \* dir does not exist
EmptyTree == (<< >> :> DirNode)            \* dir exists and is empty

Put(f, k, v) == [x \in (DOMAIN f) \cup {k} |-> IF x = k THEN v ELSE f[x]]

Parent(path) == SubSeq(path, 1, Len(path) - 1)
Prefixes(path) == {SubSeq(path, 1, n) : n \in 0..Len(path)}

\* filepath.Join(a, b): concatenation cleaned lexically, a ".." removing the
\* component before it.  Outside is a path that left dir.
Outside == <<"..">>
RECURSIVE Clean(_, _)
Clean(done, rest) ==
    IF rest = << >> THEN done
    ELSE IF Head(rest) = ".."
         THEN IF done = << >> THEN Outside
              ELSE Clean(SubSeq(done, 1, Len(done) - 1), Tail(rest))
         ELSE Clean(Append(done, Head(rest)), Tail(rest))
Join(a, b) == Clean(<< >>, a \o b)

\* os.MkdirAll(path, 0755): every missing directory of the path is created;
\* it fails when a component exists and is no directory.
MkdirAllOk(f, path) ==
    /\ path # Outside
    /\ \A q \in Prefixes(path) : q \in DOMAIN f => f[q].type = "dir"
MkdirAll(f, path) ==
    [x \in (DOMAIN f) \cup Prefixes(path) |-> IF x \in DOMAIN f THEN f[x] ELSE DirNode]

\* ------------------------------------------------------------- archives
\* One tar entry as the handler sees it: NameInArchive, Typeflag, Mode(),
\* the content Open() yields, and Linkname.
Entry(name, flag, mode, data, link) ==
    [name |-> name, flag |-> flag, mode |-> mode, data |-> data, link |-> link]

\* A stored object's bytes: the entries written, and whether the stream was
\* written to its end (a stream cut short does not decode to its end).
Archive(entries, complete) == [entries |-> entries, complete |-> complete]

\* filepath.WalkDir visits dir, then its entries in lexical order, a
\* directory before what it holds.
CompRank(c) == CASE c = "d" -> 1 [] c = "f" -> 2 [] c = "l" -> 3 [] OTHER -> 4
RECURSIVE PathLess(_, _)
PathLess(a, b) ==
    IF a = << >> THEN b # << >>
    ELSE IF b = << >> THEN FALSE
    ELSE IF Head(a) = Head(b) THEN PathLess(Tail(a), Tail(b))
    ELSE CompRank(Head(a)) < CompRank(Head(b))
RECURSIVE Walk(_)
Walk(S) ==
    IF S = {} THEN << >>
    ELSE LET m == CHOOSE x \in S : \A y \in S \ {x} : PathLess(x, y)
         IN <<m>> \o Walk(S \ {m})

\* tar.FileInfoHeader: the entry of one node of the tree.
EntryOf(path, node) ==
    CASE node.type = "dir" -> Entry(path, "Dir", node.mode, << >>, << >>)
      [] node.type = "reg" -> Entry(path, "Reg", node.mode, node.data, << >>)
      [] node.type = "symlink" -> Entry(path, "Symlink", node.mode, << >>, node.link)

\* archiver.FilesFromDisk(nil, {dir: ""}): the files of the tree in walk
\* order, named by their path relative to dir.
FilesFromDisk(f) ==
    LET order == Walk(DOMAIN f)
    IN [i \in 1..Len(order) |-> EntryOf(order[i], f[order[i]])]

\* ------------------------------------------------ Restore's entry handler
GOOS == "linux"                   \* runtime.GOOS of the build

RegFlags == {"Reg", "RegA", "Char", "Block", "Fifo"}

\* What the handler returns: the tree it leaves, and its error (None is nil).
Handled(f, err) == [fs |-> f, err |-> err]

\* The number of I/O calls the handler makes for an entry; io = k below makes
\* the k-th of them fail (io = 0: none fails).
IOCalls(e) ==
    CASE e.flag = "Dir" -> 1
      [] e.flag \in RegFlags -> 5
      [] e.flag = "Symlink" -> 2
      [] e.flag = "Link" -> 2
      [] OTHER -> 0

\* case tar.TypeDir
HandleDir(f, e, io) ==
    LET fpath == Join(<< >>, e.name)
    IN IF io = 1 \/ ~MkdirAllOk(f, fpath)
       THEN Handled(f, Err("mkdir", "IOError", <<e.name>>))
       ELSE Handled(MkdirAll(f, fpath), None)

\* os.Create(fpath): a new file gets 0666 less the umask, a file that exists
\* keeps its mode.
CreateMode(f, fpath) == IF fpath \in DOMAIN f THEN f[fpath].mode ELSE "0644"

\* case tar.TypeReg, TypeRegA, TypeChar, TypeBlock, TypeFifo: MkdirAll of the
\* parent, os.Create, out.Chmod(f.Mode()), f.Open(), io.Copy.  os.Create
\* truncates a file that exists, fails on a directory, and writes through a
\* symlink (leaving the link in the tree as it is).
HandleReg(f, e, io) ==
    LET fpath == Join(<< >>, e.name)
        f1 == MkdirAll(f, Parent(fpath))
        isDir == fpath \in DOMAIN f1 /\ f1[fpath].type = "dir"
        through == fpath \in DOMAIN f1 /\ f1[fpath].type = "symlink"
        mode0 == CreateMode(f1, fpath)
        f2 == IF through THEN f1 ELSE Put(f1, fpath, RegNode(<< >>, mode0))
        f3 == IF through \/ io = 3 THEN f2 ELSE Put(f2, fpath, RegNode(<< >>, e.mode))
        f4 == IF through THEN f3 ELSE Put(f3, fpath, RegNode(e.data, f3[fpath].mode))
    IN IF io = 1 \/ ~MkdirAllOk(f, Parent(fpath))
       THEN Handled(f, Err("mkdir", "IOError", <<e.name>>))
       ELSE IF io = 2 \/ isDir
       THEN Handled(f1, Err("create", "IOError", <<e.name>>))
       ELSE IF io = 3 /\ GOOS # "windows"
       THEN Handled(f2, Err("chmod", "IOError", <<e.name>>))
       ELSE IF io = 4
       THEN Handled(f3, Err("open", "IOError", <<e.name>>))
       ELSE IF io = 5
       THEN Handled(f3, Err("copy", "IOError", <<e.name>>))
       ELSE Handled(f4, None)

\* The link target joined to the entry's path, as the hard link's is.
HandleSymlinkMut(f, e, io) ==
    LET fpath == Join(<< >>, e.name)
        f1 == MkdirAll(f, Parent(fpath))
    IN IF io = 1 \/ ~MkdirAllOk(f, Parent(fpath))
       THEN Handled(f, Err("mkdir", "IOError", <<e.name>>))
       ELSE IF io = 2 \/ fpath \in DOMAIN f1
       THEN Handled(f1, Err("symlink", "IOError", <<e.name>>))
       ELSE Handled(Put(f1, fpath, SymNode(Join(fpath, e.link))), None)

\* case tar.TypeSymlink: os.Symlink(hdr.Linkname, fpath) fails when fpath exists.
HandleSymlink(f, e, io) ==
    LET fpath == Join(<< >>, e.name)
        f1 == MkdirAll(f, Parent(fpath))
    IN IF io = 1 \/ ~MkdirAllOk(f, Parent(fpath))
       THEN Handled(f, Err("mkdir", "IOError", <<e.name>>))
       ELSE IF io = 2 \/ fpath \in DOMAIN f1
       THEN Handled(f1, Err("symlink", "IOError", <<e.name>>))
       ELSE Handled(Put(f1, fpath, SymNode(e.link)), None)

\* case tar.TypeLink: os.Link(filepath.Join(fpath, hdr.Linkname), fpath) needs
\* its first path to be an existing file and its second path not to exist.
LinkSource(fpath, e) == Join(fpath, e.link)
HandleLink(f, e, io) ==
    LET fpath == Join(<< >>, e.name)
        f1 == MkdirAll(f, Parent(fpath))
        old == LinkSource(fpath, e)
    IN IF io = 1 \/ ~MkdirAllOk(f, Parent(fpath))
       THEN Handled(f, Err("mkdir", "IOError", <<e.name>>))
       ELSE IF \/ io = 2
               \/ old \notin DOMAIN f1
               \/ f1[old].type = "dir"
               \/ fpath \in DOMAIN f1
       THEN Handled(f1, Err("link", "IOError", <<e.name>>))
       ELSE Handled(Put(f1, fpath, f1[old]), None)

\* handler := func(ctx, f archiver.File) error, the switch on hdr.Typeflag.
\* (Every entry of a tar archive carries a *tar.Header, so the !ok return
\* is not taken.)
Handler(f, e, io) ==
    CASE e.flag = "Dir" -> HandleDir(f, e, io)
      [] e.flag \in RegFlags -> HandleReg(f, e, io)
      [] e.flag = "Symlink" -> HandleSymlink(f, e, io)
      [] e.flag = "Link" -> HandleLink(f, e, io)
      [] e.flag = "XGlobalHeader" -> Handled(f, None)
      [] OTHER -> Handled(f, Err("typeflag", "UnsupportedEntryType", <<e.name>>))

\* ------------------------------------------------------------- the state
VARIABLES
    store,      \* the bucket: object name -> object, or None
    clock,      \* the store's time
    nseq,       \* objects committed since Init
    cmd,        \* per process: the operation it was started for, and its request
    pc,         \* per process: where its operation stands
    retErr,     \* per process: the operation's named return value
    cancelled,  \* per process: whether ctx is cancelled
    gcsw,       \* per process: the storage writer's stream, or None
    match,      \* per process: Restore's best candidate, or None
    ki,         \* per process: the key Restore lists next
    enum,       \* per process: the object names Restore's listing yielded, in order
    gcsr,       \* per process: the storage reader's stream, or None
    ei,         \* per process: the entry Extract hands to the handler next
    fs,         \* per process: the tree under dir
    faults,     \* failures injected so far
    tr,         \* per process: what the operation has done (history)
    hdisk,      \* HashFiles: the disk, path -> a file's bytes or a directory
    hpaths,     \* HashFiles: the list of paths given
    hpc,        \* HashFiles: position
    hi,         \* HashFiles: index of the next path
    h,          \* HashFiles: the bytes written to the digest so far
    hret,       \* HashFiles: the pair returned
    hprev       \* HashFiles: the list and the pair returned of the call before

cacheVars == <<store, clock, nseq, cmd, pc, retErr, cancelled, gcsw, match, ki,
               enum, gcsr, ei, fs, faults, tr>>
hashVars == <<hdisk, hpaths, hpc, hi, h, hret, hprev>>
vars == <<cacheVars, hashVars>>

contentType == "application/x-zstd-compressed-tar"
cacheControl == "public,max-age=600"

Absent == [absent |-> TRUE]      \* no such process

SaveRequest(bucket, key, dir) == [bucket |-> bucket, key |-> key, dir |-> dir]
RestoreRequest(bucket, keys, dir) == [bucket |-> bucket, keys |-> keys, dir |-> dir]
Command(op, req) == [op |-> op, req |-> req]

Object(content, updated, seq) ==
    [content |-> content, updated |-> updated, seq |-> seq,
     contentType |-> contentType, cacheControl |-> cacheControl]

\* storage.ObjectAttrs, as far as Restore reads it
Attrs(name) == [name |-> name, updated |-> store[name].updated]

NoTrace ==
    [storeCalls |-> 0, opened |-> 0, closed |-> 0, commits |-> 0, readDir |-> FALSE,
     fsChanged |-> FALSE, sawCancel |-> FALSE, sawFault |-> FALSE, entryErr |-> FALSE,
     extract |-> None, prior |-> FALSE, epoch |-> 0, dir0 |-> NoDir]

Running(p) == pc[p] \notin {"idle", "done"}

\* A store call or a local I/O call may be made to fail while the budget lasts.
MayFail == faults < MaxFaults
Outcomes == IF MayFail THEN {"ok", "fail"} ELSE {"ok"}

\* return with retErr = e
Return(p, e) ==
    /\ pc' = [pc EXCEPT ![p] = "done"]
    /\ retErr' = [retErr EXCEPT ![p] = e]

\* ------------------------------------------------------------------ Save
\* The validation without the check of dir.
SaveValidateMut(req) ==
    IF req = None THEN <<Err("options", "InvalidArgument", << >>)>>
    ELSE IF req.bucket = EmptyStr THEN <<Err("bucket", "InvalidArgument", << >>)>>
    ELSE IF req.key = EmptyStr THEN <<Err("key", "InvalidArgument", << >>)>>
    ELSE NoErr

\* Save, lines 68-90: the request is validated, bucket, then dir, then key.
SaveValidate(req) ==
    IF req = None THEN <<Err("options", "InvalidArgument", << >>)>>
    ELSE IF req.bucket = EmptyStr THEN <<Err("bucket", "InvalidArgument", << >>)>>
    ELSE IF req.dir = EmptyStr THEN <<Err("directory", "InvalidArgument", << >>)>>
    ELSE IF req.key = EmptyStr THEN <<Err("key", "InvalidArgument", << >>)>>
    ELSE NoErr

SaveCall(p) ==
    /\ pc[p] = "idle"
    /\ cmd[p] # Absent
    /\ cmd[p].op = "save"
    /\ LET invalid == SaveValidate(cmd[p].req)
       IN /\ pc' = [pc EXCEPT ![p] = IF invalid # NoErr THEN "done" ELSE "save_probe"]
          /\ retErr' = [retErr EXCEPT ![p] = invalid]
          /\ tr' = [tr EXCEPT ![p] = [NoTrace EXCEPT
                        !.epoch = nseq,
                        !.prior = invalid = NoErr /\
                                  \E q \in Procs : /\ q # p
                                                   /\ pc[q] = "done"
                                                   /\ cmd[q] = cmd[p]
                                                   /\ retErr[q] = NoErr]]
    /\ UNCHANGED <<store, clock, nseq, cmd, cancelled, gcsw, match, ki, enum, gcsr,
                   ei, fs, faults, hashVars>>

\* The storage writer: what was written to it, and the error its upload has
\* met (every later Write and the Close return it).
Writer(buf, err) == [buf |-> buf, err |-> err]

\* Save, lines 92-106: Attrs of the object, and on ErrObjectNotExist the
\* writer, conditional on DoesNotExist (NewWriter itself sends nothing).
\* The probe's answer ignored: Save never skips the upload.
ProbeFoundMut(name) == FALSE
ProbeFound(name) == store[name] # None

\* Every error of the probe taken for ErrObjectNotExist.
ProbeFailedMut(p, out) == FALSE

\* Save, lines 95-98: err != nil && !errors.Is(err, storage.ErrObjectNotExist).
ProbeFailed(p, out) == cancelled[p] \/ out = "fail"

SaveProbe(p) ==
    /\ pc[p] = "save_probe"
    /\ \E out \in Outcomes :
        LET key == cmd[p].req.key
            t1 == [tr[p] EXCEPT !.storeCalls = @ + 1,
                                !.sawCancel = @ \/ cancelled[p],
                                !.sawFault = @ \/ out = "fail"]
        IN /\ faults' = IF out = "fail" THEN faults + 1 ELSE faults
           /\ IF ProbeFailed(p, out)
              THEN /\ Return(p, <<Err("probe",
                                     IF cancelled[p] THEN "Cancelled" ELSE "Transport",
                                     <<key>>)>>)
                   /\ tr' = [tr EXCEPT ![p] = t1]
                   /\ UNCHANGED gcsw
              ELSE IF ProbeFound(key)
              THEN /\ Return(p, NoErr)
                   /\ tr' = [tr EXCEPT ![p] = t1]
                   /\ UNCHANGED gcsw
              ELSE /\ pc' = [pc EXCEPT ![p] = "save_archive"]
                   /\ gcsw' = [gcsw EXCEPT ![p] = Writer(Archive(<< >>, FALSE), NoKind)]
                   /\ tr' = [tr EXCEPT ![p] = [t1 EXCEPT !.opened = @ + 1]]
                   /\ UNCHANGED retErr
    /\ UNCHANGED <<store, clock, nseq, cmd, cancelled, match, ki, enum, gcsr, ei, fs,
                   hashVars>>

\* Save, lines 125-141: FilesFromDisk, then format.Archive into the writer.
\* Either returns its error as it is (return err); the deferred Close
\* follows in every case.  out: the error returned, how many entries reached
\* the writer, whether the stream was written to its end, the error the
\* writer keeps, and whether the failure was injected.
ArchiveOut(err, n, complete, werr, injected) ==
    [err |-> err, n |-> n, complete |-> complete, werr |-> werr, injected |-> injected]

ArchiveOutcomes(p) ==
    LET key == cmd[p].req.key
        files == FilesFromDisk(fs[p])
        walkErr == ArchiveOut(<<Err("walk", "IOError", << >>)>>, 0, FALSE, NoKind, fs[p] # NoDir)
    IN IF fs[p] = NoDir THEN {walkErr}
       ELSE IF cancelled[p]
       THEN {ArchiveOut(<<Err("archive", "Cancelled", << >>)>>, 0, FALSE, NoKind, FALSE)}
       ELSE {ArchiveOut(NoErr, Len(files), TRUE, NoKind, FALSE)}
            \cup (IF store[key] # None
                  THEN {ArchiveOut(<<Err("archive", "PreconditionFailed", <<key>>)>>,
                                   n, FALSE, "PreconditionFailed", FALSE)
                        : n \in 0..(Len(files) - 1)}
                  ELSE {})
            \cup (IF MayFail
                  THEN {walkErr}
                       \cup {ArchiveOut(<<Err("archive", "IOError", << >>)>>,
                                        n, FALSE, NoKind, TRUE) : n \in 0..(Len(files) - 1)}
                       \cup {ArchiveOut(<<Err("archive", "Transport", <<key>>)>>,
                                        n, FALSE, "Transport", TRUE)
                             : n \in 0..(Len(files) - 1)}
                  ELSE {})

SaveArchive(p) ==
    /\ pc[p] = "save_archive"
    /\ \E out \in ArchiveOutcomes(p) :
        /\ faults' = IF out.injected THEN faults + 1 ELSE faults
        /\ retErr' = [retErr EXCEPT ![p] = out.err]
        /\ gcsw' = [gcsw EXCEPT ![p] =
                       Writer(Archive(SubSeq(FilesFromDisk(fs[p]), 1, out.n), out.complete),
                              out.werr)]
        /\ tr' = [tr EXCEPT ![p] = [@ EXCEPT !.readDir = TRUE,
                                             !.sawCancel = @ \/ cancelled[p],
                                             !.sawFault = @ \/ out.injected]]
    /\ pc' = [pc EXCEPT ![p] = "save_close"]
    /\ UNCHANGED <<store, clock, nseq, cmd, cancelled, match, ki, enum, gcsr, ei, fs,
                   hashVars>>

\* The writer without its condition: every Close commits.
DoesNotExistMut(name) == TRUE

\* storage.Conditions{DoesNotExist: true}: the write commits only when no
\* object has the name.
DoesNotExist(name) == store[name] = None

\* Save, lines 107-116: the deferred gcsw.Close().  Close sends what the
\* writer holds and commits it as the object, unless ctx is cancelled, the
\* upload fails or the condition does not hold; its error is added to retErr.
CloseError(p, out) ==
    IF gcsw[p].err # NoKind THEN gcsw[p].err
    ELSE IF cancelled[p] THEN "Cancelled"
    ELSE IF out = "fail" THEN "Transport"
    ELSE IF ~DoesNotExist(cmd[p].req.key) THEN "PreconditionFailed"
    ELSE NoKind

\* The error of Close dropped.
CloseRetErrMut(prev, cerr, key) == prev

CloseRetErr(prev, cerr, key) ==
    IF cerr = NoKind THEN prev
    ELSE IF prev # NoErr THEN prev \o <<Err("close", cerr, <<key>>)>>
    ELSE <<Err("close", cerr, <<key>>)>>

SaveClose(p) ==
    /\ pc[p] = "save_close"
    /\ \E out \in Outcomes :
        LET key == cmd[p].req.key
            cerr == CloseError(p, out)
        IN /\ faults' = IF out = "fail" THEN faults + 1 ELSE faults
           /\ Return(p, CloseRetErr(retErr[p], cerr, key))
           /\ tr' = [tr EXCEPT ![p] = [@ EXCEPT !.storeCalls = @ + 1,
                                                !.closed = @ + 1,
                                                !.commits = IF cerr = NoKind THEN @ + 1 ELSE @,
                                                !.sawCancel = @ \/ cancelled[p],
                                                !.sawFault = @ \/ out = "fail"]]
           /\ IF cerr = NoKind
              THEN \E t \in clock..Min(clock + 1, MaxTime) :
                      /\ store' = [store EXCEPT ![key] = Object(gcsw[p].buf, t, nseq + 1)]
                      /\ clock' = t
                      /\ nseq' = nseq + 1
              ELSE UNCHANGED <<store, clock, nseq>>
    /\ gcsw' = [gcsw EXCEPT ![p] = None]
    /\ UNCHANGED <<cmd, cancelled, match, ki, enum, gcsr, ei, fs, hashVars>>

\* --------------------------------------------------------------- Restore
\* Restore, lines 159-181: the request is validated, bucket, dir, then keys.
RestoreValidate(req) ==
    IF req = None THEN <<Err("options", "InvalidArgument", << >>)>>
    ELSE IF req.bucket = EmptyStr THEN <<Err("bucket", "InvalidArgument", << >>)>>
    ELSE IF req.dir = EmptyStr THEN <<Err("directory", "InvalidArgument", << >>)>>
    ELSE IF Len(req.keys) < 1 THEN <<Err("keys", "InvalidArgument", << >>)>>
    ELSE NoErr

RestoreCall(p) ==
    /\ pc[p] = "idle"
    /\ cmd[p] # Absent
    /\ cmd[p].op = "restore"
    /\ LET invalid == RestoreValidate(cmd[p].req)
       IN /\ pc' = [pc EXCEPT ![p] = IF invalid # NoErr THEN "done" ELSE "restore_list"]
          /\ retErr' = [retErr EXCEPT ![p] = invalid]
    /\ tr' = [tr EXCEPT ![p] = [NoTrace EXCEPT !.epoch = nseq, !.dir0 = fs[p]]]
    /\ match' = [match EXCEPT ![p] = None]
    /\ ki' = [ki EXCEPT ![p] = 1]
    /\ UNCHANGED <<store, clock, nseq, cmd, cancelled, gcsw, enum, gcsr, ei, fs, faults,
                   hashVars>>

\* The objects a listing with Query{Prefix: key} yields.
Listed(key) == {n \in ObjNames : store[n] # None /\ HasPrefix(n, key)}

\* A timestamp that is not earlier counts as later.
AfterMut(t, u) == t >= u

\* time.Time.After
After(t, u) == t > u

\* The first object seen is kept, whatever the later ones' timestamps.
BetterMut(m, attrs) == IF m = None THEN attrs ELSE m

\* Restore, lines 208-212: the candidate after one more object was seen.
Better(m, attrs) ==
    IF m = None \/ After(attrs.updated, m.updated) THEN attrs ELSE m

\* Restore, lines 196-213: the loop over one listing, objects in the order
\* the iterator yields them.
RECURSIVE Scan(_, _)
Scan(m, order) ==
    IF order = << >> THEN m
    ELSE Scan(Better(m, Attrs(Head(order))), Tail(order))

\* The error naming only the first key.
NotFoundErrMut(keys) == <<Err("find", "NotFound", <<keys[1]>>)>>

\* Restore, lines 216-220: the error when no object was found.
NotFoundErr(keys) == <<Err("find", "NotFound", keys)>>

\* An error of the iterator taken for the end of the listing.
ListFailedMut(p, out) == FALSE

\* Restore, lines 201-204: it.Next() returned an error other than Done.
ListFailed(p, out) == cancelled[p] \/ out = "fail"

\* Restore, lines 189-220: one pass of the loop over keys, the listing of
\* keys[ki] (the store fixes the order of a listing); after the last key,
\* the check that a candidate was found.
RestoreList(p) ==
    /\ pc[p] = "restore_list"
    /\ LET keys == cmd[p].req.keys
           key == keys[ki[p]]
       IN \E out \in Outcomes : \E order \in Perms(Listed(key)) :
           LET m == Scan(match[p], order)
               t1 == [tr[p] EXCEPT !.storeCalls = @ + 1,
                                   !.sawCancel = @ \/ cancelled[p],
                                   !.sawFault = @ \/ out = "fail"]
           IN /\ faults' = IF out = "fail" THEN faults + 1 ELSE faults
              /\ tr' = [tr EXCEPT ![p] = t1]
              /\ IF ListFailed(p, out)
                 THEN /\ Return(p, <<Err("list",
                                        IF cancelled[p] THEN "Cancelled" ELSE "Transport",
                                        <<key>>)>>)
                      /\ UNCHANGED <<match, ki, enum>>
                 ELSE /\ match' = [match EXCEPT ![p] = m]
                      /\ enum' = [enum EXCEPT ![p] = @ \o order]
                      /\ ki' = [ki EXCEPT ![p] = @ + 1]
                      /\ IF ki[p] < Len(keys)
                         THEN UNCHANGED <<pc, retErr>>
                         ELSE IF m = None
                         THEN Return(p, NotFoundErr(keys))
                         ELSE /\ pc' = [pc EXCEPT ![p] = "restore_mkdir"]
                              /\ UNCHANGED retErr
    /\ UNCHANGED <<store, clock, nseq, cmd, cancelled, gcsw, gcsr, ei, fs, hashVars>>

\* Restore, lines 222-227: os.MkdirAll(dir, 0755).
RestoreMkdir(p) ==
    /\ pc[p] = "restore_mkdir"
    /\ \E out \in Outcomes :
        /\ faults' = IF out = "fail" THEN faults + 1 ELSE faults
        /\ tr' = [tr EXCEPT ![p] = [@ EXCEPT !.sawFault = @ \/ out = "fail",
                                             !.fsChanged = @ \/ (out = "ok" /\ fs[p] = NoDir)]]
        /\ IF out = "fail"
           THEN /\ Return(p, <<Err("mkdir", "IOError", << >>)>>)
                /\ UNCHANGED fs
           ELSE /\ pc' = [pc EXCEPT ![p] = "restore_open"]
                /\ fs' = [fs EXCEPT ![p] = MkdirAll(@, << >>)]
                /\ UNCHANGED retErr
    /\ UNCHANGED <<store, clock, nseq, cmd, cancelled, gcsw, match, ki, enum, gcsr, ei,
                   hashVars>>

\* Restore, lines 229-244: NewReader of the candidate; from here on the
\* deferred Close runs on return.
RestoreOpen(p) ==
    /\ pc[p] = "restore_open"
    /\ \E out \in Outcomes :
        /\ faults' = IF out = "fail" THEN faults + 1 ELSE faults
        /\ IF cancelled[p] \/ out = "fail"
           THEN /\ Return(p, <<Err("reader",
                                  IF cancelled[p] THEN "Cancelled" ELSE "Transport",
                                  <<match[p].name>>)>>)
                /\ tr' = [tr EXCEPT ![p] = [@ EXCEPT !.storeCalls = @ + 1,
                                                     !.sawCancel = @ \/ cancelled[p],
                                                     !.sawFault = @ \/ out = "fail"]]
                /\ UNCHANGED <<gcsr, ei>>
           ELSE /\ pc' = [pc EXCEPT ![p] = "restore_extract"]
                /\ gcsr' = [gcsr EXCEPT ![p] = store[match[p].name].content]
                /\ ei' = [ei EXCEPT ![p] = 1]
                /\ tr' = [tr EXCEPT ![p] = [@ EXCEPT !.storeCalls = @ + 1,
                                                     !.opened = @ + 1]]
                /\ UNCHANGED retErr
    /\ UNCHANGED <<store, clock, nseq, cmd, cancelled, gcsw, match, ki, enum, fs,
                   hashVars>>

\* Restore, line 324: format.Extract(ctx, gcsr, fileList, handler) is called
\* as a statement; the error it returns is assigned to nothing, so retErr
\* stays what it was.
AfterExtract(prev, xerr) == prev

\* The handler's I/O calls that may be made to fail for entry e; -1 is a
\* failure of the read stream itself.
EntryFaults(e) == IF MayFail THEN (-1)..IOCalls(e) ELSE {0}

\* Restore, lines 246-324: Extract reads the stream entry by entry and calls
\* the handler for each; it stops at the first error (of the handler, of the
\* stream, of ctx) and returns it.  One step per entry; the step that ends
\* Extract leaves its result in tr.extract and applies line 324.
RestoreExtract(p) ==
    /\ pc[p] = "restore_extract"
    /\ LET ar == gcsr[p]
           leave(xerr, t1) ==
               /\ pc' = [pc EXCEPT ![p] = "restore_close"]
               /\ retErr' = [retErr EXCEPT ![p] = AfterExtract(@, xerr)]
               /\ tr' = [tr EXCEPT ![p] = [t1 EXCEPT !.extract = xerr]]
       IN IF cancelled[p]
          THEN /\ leave(Err("extract", "Cancelled", << >>),
                        [tr[p] EXCEPT !.sawCancel = TRUE])
               /\ UNCHANGED <<fs, ei, faults>>
          ELSE IF ei[p] > Len(ar.entries)
          THEN /\ leave(IF ar.complete THEN None ELSE Err("extract", "Decode", << >>),
                        tr[p])
               /\ UNCHANGED <<fs, ei, faults>>
          ELSE \E io \in EntryFaults(ar.entries[ei[p]]) :
                  LET e == ar.entries[ei[p]]
                      r == Handler(fs[p], e, io)
                      t1 == [tr[p] EXCEPT !.sawFault = @ \/ io # 0,
                                          !.fsChanged = @ \/ r.fs # fs[p],
                                          !.entryErr = @ \/ (io # -1 /\ r.err # None)]
                  IN /\ faults' = IF io # 0 THEN faults + 1 ELSE faults
                     /\ IF io = -1
                        THEN /\ leave(Err("extract", "Transport", << >>), t1)
                             /\ UNCHANGED <<fs, ei>>
                        ELSE /\ fs' = [fs EXCEPT ![p] = r.fs]
                             /\ IF r.err # None
                                THEN /\ leave(r.err, t1)
                                     /\ UNCHANGED ei
                                ELSE /\ ei' = [ei EXCEPT ![p] = @ + 1]
                                     /\ tr' = [tr EXCEPT ![p] = t1]
                                     /\ UNCHANGED <<pc, retErr>>
    /\ UNCHANGED <<store, clock, nseq, cmd, cancelled, gcsw, match, ki, enum, gcsr,
                   hashVars>>

\* Restore, lines 235-244: the deferred gcsr.Close(); its error is added to
\* retErr.  Close of a reader whose ctx is cancelled may or may not fail.
ReaderCloseErrors(p) ==
    {NoKind} \cup (IF cancelled[p] THEN {"Cancelled"} ELSE {})
             \cup (IF MayFail THEN {"Transport"} ELSE {})

RestoreClose(p) ==
    /\ pc[p] = "restore_close"
    /\ \E cerr \in ReaderCloseErrors(p) :
        /\ faults' = IF cerr = "Transport" THEN faults + 1 ELSE faults
        /\ Return(p, CloseRetErr(retErr[p], cerr, match[p].name))
        /\ tr' = [tr EXCEPT ![p] = [@ EXCEPT !.closed = @ + 1,
                                             !.sawCancel = @ \/ cerr = "Cancelled",
                                             !.sawFault = @ \/ cerr = "Transport"]]
    /\ gcsr' = [gcsr EXCEPT ![p] = None]
    /\ UNCHANGED <<store, clock, nseq, cmd, cancelled, gcsw, match, ki, enum, ei, fs,
                   hashVars>>

\* The caller cancels ctx while the operation runs.
Cancel(p) ==
    /\ Running(p)
    /\ ~cancelled[p]
    /\ MayFail
    /\ cancelled' = [cancelled EXCEPT ![p] = TRUE]
    /\ faults' = faults + 1
    /\ UNCHANGED <<store, clock, nseq, cmd, pc, retErr, gcsw, match, ki, enum, gcsr, ei,
                   fs, tr, hashVars>>

SaveStep(p) == SaveCall(p) \/ SaveProbe(p) \/ SaveArchive(p) \/ SaveClose(p)
RestoreStep(p) ==
    \/ RestoreCall(p)
    \/ RestoreList(p)
    \/ RestoreMkdir(p)
    \/ RestoreOpen(p)
    \/ RestoreExtract(p)
    \/ RestoreClose(p)

Next == \E p \in Procs : SaveStep(p) \/ RestoreStep(p) \/ Cancel(p)
NextRestore == \E p \in Procs : RestoreStep(p) \/ Cancel(p)

\* ------------------------------------------------------ initial states
\* The trees a process may find under dir: dir with any of the paths d, f
\* and d/f as a directory, a regular file or a symlink.
TreePaths == {<<"d">>, <<"f">>, <<"d", "f">>}
NodeKinds == {DirNode, RegNode(<< >>, "0644"), RegNode(<<1>>, "0400"),
              SymNode(<<"f">>), SymNode(<<"..", "x">>)}
Trees ==
    {t \in UNION {{EmptyTree @@ g : g \in [S -> NodeKinds]} : S \in SUBSET TreePaths} :
        \A path \in DOMAIN t :
            Len(path) > 1 => Parent(path) \in DOMAIN t /\ t[Parent(path)].type = "dir"}

Tree1 == EmptyTree @@ (<<"f">> :> RegNode(<<1>>, "0644"))

\* An archive an earlier Save left in the bucket.
Archive1 == Archive(FilesFromDisk(Tree1), TRUE)

\* Archives other tools left in the bucket: a hard link after its target, an
\* entry of a type tar does not define, a pax global header, a stream cut
\* short.
ForeignArchives ==
    {Archive(<<Entry(<<"f">>, "Reg", "0644", <<1>>, << >>),
               Entry(<<"l">>, "Link", "0644", << >>, <<"f">>)>>, TRUE),
     Archive(<<Entry(<<"f">>, "Reg", "0644", <<1>>, << >>),
               Entry(<<"l">>, "Other", "0644", << >>, << >>)>>, TRUE),
     Archive(<<Entry(<< >>, "XGlobalHeader", "0644", << >>, << >>),
               Entry(<<"f">>, "Reg", "0644", <<1>>, << >>)>>, TRUE),
     Archive(<<Entry(<<"f">>, "Reg", "0644", <<1>>, << >>)>>, FALSE)}

NoHash ==
    /\ hdisk = << >>
    /\ hpaths = << >>
    /\ hpc = "idle"
    /\ hi = 1
    /\ h = << >>
    /\ hret = None
    /\ hprev = None

InitCache(stores, cmds1, cmds2, trees1, trees2) ==
    /\ store \in stores
    /\ clock = InitTime
    /\ nseq = 0
    /\ cmd \in {c \in [Procs -> cmds1 \cup cmds2] : c["p1"] \in cmds1 /\ c["p2"] \in cmds2}
    /\ pc = [p \in Procs |-> "idle"]
    /\ retErr = [p \in Procs |-> NoErr]
    /\ cancelled = [p \in Procs |-> FALSE]
    /\ gcsw = [p \in Procs |-> None]
    /\ match = [p \in Procs |-> None]
    /\ ki = [p \in Procs |-> 1]
    /\ enum = [p \in Procs |-> << >>]
    /\ gcsr = [p \in Procs |-> None]
    /\ ei = [p \in Procs |-> 1]
    /\ fs \in {f \in [Procs -> trees1 \cup trees2] : f["p1"] \in trees1 /\ f["p2"] \in trees2}
    /\ faults = 0
    /\ tr = [p \in Procs |-> NoTrace]
    /\ NoHash

SaveCmds ==
    {Command("save", None)}
    \cup {Command("save", SaveRequest(b, k, d)) : b \in BucketArgs, k \in KeyArgs, d \in DirArgs}
RestoreCmds(n) ==
    {Command("restore", None)}
    \cup {Command("restore", RestoreRequest(b, ks, d)) :
            b \in BucketArgs, ks \in SeqsUpTo(KeyArgs, n), d \in DirArgs}

\* Two processes started at once against a bucket in which the object a may
\* exist: one saves, the other saves or restores by one key.
Init ==
    InitCache({[n \in ObjNames |-> IF n = <<"a">> THEN o ELSE None] :
                  o \in {None} \cup {Object(Archive1, t, 0) : t \in 1..InitTime}},
              SaveCmds, SaveCmds \cup RestoreCmds(1), {Tree1}, {NoDir, EmptyTree})
Spec == Init /\ [][Next]_vars

\* One process restoring by any list of keys from a bucket holding any of the
\* objects.
InitResolve ==
    InitCache([ObjNames -> {None} \cup {Object(Archive1, t, 0) : t \in 1..InitTime}],
              {Command("restore", RestoreRequest(Bucket, ks, Dir)) :
                  ks \in SeqsUpTo(ObjNames, MaxKeys)},
              {Absent}, {NoDir}, {NoDir})
SpecResolve == InitResolve /\ [][NextRestore]_vars

\* One process saving any tree under the key a, the other restoring the key.
InitTree ==
    InitCache({[n \in ObjNames |-> IF n = <<"a">> THEN o ELSE None] :
                  o \in {None} \cup {Object(ar, 1, 0) : ar \in ForeignArchives}},
              {Command("save", SaveRequest(Bucket, <<"a">>, Dir))},
              {Command("restore", RestoreRequest(Bucket, << <<"a">> >>, Dir))},
              Trees, {NoDir, EmptyTree, Tree1})
SpecTree == InitTree /\ [][Next]_vars

\* ------------------------------------------------------------- HashFiles
\* Files are sequences of bytes.  The digest stands for BLAKE2b-128: sixteen
\* bytes that differ whenever the messages differ (no collision occurs among
\* the messages of the model, all shorter than sixteen bytes).
DigestSize == 16
Sum(msg) ==
    [i \in 1..DigestSize |->
        IF i = 1 THEN Len(msg) ELSE IF i - 1 <= Len(msg) THEN msg[i - 1] ELSE 0]

\* fmt.Sprintf("%x", dig): two hexadecimal digits a byte.
HexDigits == <<"0", "1", "2", "3", "4", "5", "6", "7", "8", "9", "a", "b", "c", "d", "e", "f">>
RECURSIVE Hex(_)
Hex(bytes) ==
    IF bytes = << >> THEN << >>
    ELSE <<HexDigits[(Head(bytes) \div 16) + 1], HexDigits[(Head(bytes) % 16) + 1]>>
         \o Hex(Tail(bytes))

\* What a path of the disk holds: os.FileInfo.IsDir() and the bytes of a file.
HashFile(data) == [isDir |-> FALSE, data |-> data]
HashDir == [isDir |-> TRUE, data |-> << >>]
HashNames == {"f1", "f2", "d"}
Contents == {<<97>>, <<98>>, <<97, 97>>}
\* A failed call handing back the digest of what was hashed so far.
HashResultMut(digest, err) == [digest |-> Hex(Sum(h)), err |-> err]
HashResult(digest, err) == [digest |-> digest, err |-> err]

\* hashOne, lines 345-382: open, stat, skip a directory, copy into the
\* digest, close.  io = k makes the k-th of open, stat, copy, close fail.
\* The error it returns, and the digest's message after it.
\* Without the directory skip of lines 370-373: copying a directory fails.
HashOneErrMut(name, io) ==
    IF io = 1 THEN <<Err("open", "IOError", <<name>>)>>
    ELSE IF io = 2 THEN <<Err("stat", "IOError", <<name>>)>>
    ELSE IF io = 3 \/ hdisk[name].isDir THEN <<Err("hash", "IOError", <<name>>)>>
    ELSE NoErr
HashOneErr(name, io) ==
    IF io = 1 THEN <<Err("open", "IOError", <<name>>)>>
    ELSE IF io = 2 THEN <<Err("stat", "IOError", <<name>>)>>
    ELSE IF io = 3 /\ ~hdisk[name].isDir THEN <<Err("hash", "IOError", <<name>>)>>
    ELSE NoErr
HashOneRet(name, io) ==
    IF io = 4
    THEN HashOneErr(name, io) \o <<Err("close", "IOError", <<name>>)>>
    ELSE HashOneErr(name, io)
HashOneMsg(msg, name, io) ==
    IF io \in {1, 2, 3} \/ hdisk[name].isDir THEN msg ELSE msg \o hdisk[name].data

\* One digest kept from call to call.
NewDigestMut == h

\* HashFiles, lines 339-343: a new digest for the call.
NewDigest == << >>

HashCall(paths) ==
    /\ hpc \in {"idle", "done"}
    /\ hprev = None
    /\ hprev' = IF hpc = "done" THEN [paths |-> hpaths, ret |-> hret] ELSE None
    /\ hpaths' = paths
    /\ h' = NewDigest
    /\ hi' = 1
    /\ hpc' = "hashing"
    /\ hret' = None
    /\ UNCHANGED <<hdisk, cacheVars>>

\* HashFiles, lines 384-388: one pass of the loop over files.
HashOne ==
    /\ hpc = "hashing"
    /\ hi <= Len(hpaths)
    /\ \E io \in (IF MayFail THEN 0..4 ELSE {0}) :
        LET name == hpaths[hi]
            err == HashOneRet(name, io)
        IN /\ faults' = IF io # 0 THEN faults + 1 ELSE faults
           /\ h' = HashOneMsg(h, name, io)
           /\ IF err # NoErr
              THEN /\ hret' = HashResult(<< >>, err)
                   /\ hpc' = "done"
                   /\ UNCHANGED hi
              ELSE /\ hi' = hi + 1
                   /\ UNCHANGED <<hret, hpc>>
    /\ UNCHANGED <<hdisk, hpaths, hprev, store, clock, nseq, cmd, pc, retErr, cancelled,
                   gcsw, match, ki, enum, gcsr, ei, fs, tr>>

\* HashFiles, lines 390-391: the digest as hexadecimal.
HashSum ==
    /\ hpc = "hashing"
    /\ hi > Len(hpaths)
    /\ hret' = HashResult(Hex(Sum(h)), NoErr)
    /\ hpc' = "done"
    /\ UNCHANGED <<hdisk, hpaths, hi, h, hprev, cacheVars>>

NextHash == (\E paths \in SeqsUpTo(HashNames, MaxPaths) : HashCall(paths)) \/ HashOne \/ HashSum

\* HashFiles called twice, on any lists of the paths f1, f2 (files of any
\* content) and d (a directory).
InitHash ==
    /\ hdisk \in {d \in [HashNames -> {HashFile(c) : c \in Contents} \cup {HashDir}] :
                    d["d"].isDir /\ ~d["f1"].isDir /\ ~d["f2"].isDir}
    /\ hpaths = << >>
    /\ hpc = "idle"
    /\ hi = 1
    /\ h = << >>
    /\ hret = None
    /\ hprev = None
    /\ store = [n \in ObjNames |-> None]
    /\ clock = InitTime
    /\ nseq = 0
    /\ cmd = [p \in Procs |-> Absent]
    /\ pc = [p \in Procs |-> "idle"]
    /\ retErr = [p \in Procs |-> NoErr]
    /\ cancelled = [p \in Procs |-> FALSE]
    /\ gcsw = [p \in Procs |-> None]
    /\ match = [p \in Procs |-> None]
    /\ ki = [p \in Procs |-> 1]
    /\ enum = [p \in Procs |-> << >>]
    /\ gcsr = [p \in Procs |-> None]
    /\ ei = [p \in Procs |-> 1]
    /\ fs = [p \in Procs |-> NoDir]
    /\ faults = 0
    /\ tr = [p \in Procs |-> NoTrace]
SpecHash == InitHash /\ [][NextHash]_vars

\* ================================================================ claims
IsSave(p) == cmd[p] # Absent /\ cmd[p].op = "save" /\ cmd[p].req # None
IsRestore(p) == cmd[p] # Absent /\ cmd[p].op = "restore" /\ cmd[p].req # None
Undisturbed(p) == ~tr[p].sawFault /\ ~tr[p].sawCancel
HasKind(errs, kind) == \E i \in 1..Len(errs) : errs[i].kind = kind

\* C1: when two processes run Save for the same key and no object exists
\* under it (both probes answer not-found, so both open their write stream),
\* and no failure is injected, both Saves return success and one object
\* exists under the key afterward.
RacingSaves(p, q) ==
    /\ p # q
    /\ IsSave(p) /\ IsSave(q)
    /\ pc[p] = "done" /\ pc[q] = "done"
    /\ cmd[p].req.key = cmd[q].req.key
    /\ tr[p].opened = 1 /\ tr[q].opened = 1
    /\ Undisturbed(p) /\ Undisturbed(q)
    /\ fs[p] # NoDir /\ fs[q] # NoDir
C1_ConcurrentSavesBothSucceed ==
    \A p, q \in Procs :
        RacingSaves(p, q) =>
            /\ retErr[p] = NoErr
            /\ retErr[q] = NoErr
            /\ store[cmd[p].req.key] # None

\* C2: an object once committed under a key is never overwritten: no step
\* changes an object that exists (its content, its updatedAt, the commit it
\* stems from), so at most one commit per key ever succeeds.
C2_NeverOverwritten ==
    [][\A n \in ObjNames : store[n] # None => store'[n] = store[n]]_vars
C2_Witness ==
    \E p \in Procs :
        /\ IsSave(p) /\ pc[p] = "done"
        /\ tr[p].closed = 1 /\ tr[p].commits = 0
        /\ Undisturbed(p)
        /\ HasKind(retErr[p], "PreconditionFailed")
        /\ store[cmd[p].req.key] # None
        /\ store[cmd[p].req.key].seq > 0

\* C3: a Save called after a Save with the same arguments has returned
\* success, and whose store call is answered (no injected failure, no
\* cancellation), returns success, opens no write stream, does not read dir
\* and commits nothing: its one store call is the probe.
C3_SecondSaveIsNoOp ==
    \A p \in Procs :
        (IsSave(p) /\ pc[p] = "done" /\ tr[p].prior /\ Undisturbed(p)) =>
            /\ retErr[p] = NoErr
            /\ tr[p].opened = 0
            /\ ~tr[p].readDir
            /\ tr[p].commits = 0
            /\ tr[p].storeCalls = 1
            /\ gcsw[p] = None
C3_Witness ==
    \E p, q \in Procs :
        /\ IsSave(p) /\ pc[p] = "done" /\ tr[p].prior /\ Undisturbed(p)
        /\ retErr[p] = NoErr
        /\ q # p /\ tr[q].commits = 1 /\ retErr[q] = NoErr

\* C4: once Restore has listed all its keys, its candidate is an object
\* whose updatedAt is the maximum over all objects (present when Restore
\* began) whose name begins with any of the keys, whatever the order of the
\* keys and whichever key matched; a candidate exists whenever any key
\* matches, and the stream Restore reads is the candidate's content.
KeysOf(p) == cmd[p].req.keys
ListingDone(p) == IsRestore(p) /\ pc[p] # "idle" /\ ki[p] > Len(KeysOf(p))
Candidates(p) ==
    {n \in ObjNames : /\ store[n] # None
                      /\ store[n].seq <= tr[p].epoch
                      /\ \E i \in 1..Len(KeysOf(p)) : HasPrefix(n, KeysOf(p)[i])}
C4_NewestAcrossAllKeys ==
    \A p \in Procs :
        (ListingDone(p) /\ Candidates(p) # {}) =>
            /\ match[p] # None
            /\ ~HasKind(retErr[p], "NotFound")
            /\ store[match[p].name] # None
            /\ match[p].updated = store[match[p].name].updated
            /\ \E i \in 1..Len(KeysOf(p)) : HasPrefix(match[p].name, KeysOf(p)[i])
            /\ \A n \in Candidates(p) : match[p].updated >= store[n].updated
            /\ gcsr[p] # None => gcsr[p] = store[match[p].name].content
C4_Witness ==
    \E p \in Procs :
        /\ ListingDone(p)
        /\ Len(KeysOf(p)) = 2
        /\ Listed(KeysOf(p)[1]) # {}
        /\ Listed(KeysOf(p)[2]) # {}
        /\ match[p] # None
        /\ match[p].name \notin Listed(KeysOf(p)[1])
        /\ \A n \in Listed(KeysOf(p)[1]) : store[n].updated < match[p].updated
        /\ gcsr[p] # None

\* C5: a Restore whose listings are answered and none of whose keys is a
\* prefix of any object's name returns the NotFound error naming all its
\* keys, and has not created dir, opened a read stream or written a file.
C5_NotFoundNamesAllKeys ==
    \A p \in Procs :
        (/\ IsRestore(p) /\ pc[p] = "done"
         /\ RestoreValidate(cmd[p].req) = NoErr
         /\ Undisturbed(p)
         /\ \A i \in 1..Len(KeysOf(p)) : Listed(KeysOf(p)[i]) = {}) =>
            /\ Len(retErr[p]) = 1
            /\ retErr[p][1].kind = "NotFound"
            /\ retErr[p][1].what = KeysOf(p)
            /\ fs[p] = tr[p].dir0
            /\ ~tr[p].fsChanged
            /\ tr[p].opened = 0
            /\ gcsr[p] = None
C5_Witness ==
    \E p \in Procs :
        /\ IsRestore(p) /\ pc[p] = "done"
        /\ Len(KeysOf(p)) = 2
        /\ KeysOf(p)[1] # KeysOf(p)[2]
        /\ tr[p].storeCalls = 2
        /\ HasKind(retErr[p], "NotFound")
        /\ \E n \in ObjNames : store[n] # None

\* C6: a Restore during which the handling of an archive entry failed (a
\* local I/O failure, or an entry of an unsupported type) returns an error.
C6_EntryFailureFailsRestore ==
    \A p \in Procs :
        (IsRestore(p) /\ pc[p] = "done" /\ tr[p].entryErr) => retErr[p] # NoErr

\* C7: when a Save of a tree (regular files, subdirectories, symlinks) has
\* committed the object of its key and a Restore of that key into a missing or
\* empty directory has run undisturbed, the restored tree has the paths of
\* the saved tree, each with the same type, file content and symlink target.
SameTree(a, b) ==
    /\ DOMAIN a = DOMAIN b
    /\ \A x \in DOMAIN a :
        /\ a[x].type = b[x].type
        /\ a[x].data = b[x].data
        /\ a[x].link = b[x].link
RoundTrip(p, q) ==
    /\ IsSave(p) /\ pc[p] = "done" /\ retErr[p] = NoErr /\ tr[p].commits = 1
    /\ IsRestore(q) /\ pc[q] = "done" /\ Undisturbed(q)
    /\ tr[q].dir0 \in {NoDir, EmptyTree}
    /\ tr[q].opened = 1
    /\ match[q].name = cmd[p].req.key
InvalidSave(req) == req.bucket = EmptyStr \/ req.key = EmptyStr \/ req.dir = EmptyStr
InvalidRestore(req) == req.bucket = EmptyStr \/ req.dir = EmptyStr \/ Len(req.keys) = 0
InvalidCall(p) ==
    \/ IsSave(p) /\ InvalidSave(cmd[p].req)
    \/ IsRestore(p) /\ InvalidRestore(cmd[p].req)
C8_InvalidArgumentFirst ==
    \A p \in Procs :
        (pc[p] # "idle" /\ InvalidCall(p)) =>
            /\ pc[p] = "done"
            /\ Len(retErr[p]) = 1
            /\ retErr[p][1].kind = "InvalidArgument"
            /\ tr[p].storeCalls = 0
            /\ tr[p].opened = 0
            /\ ~tr[p].readDir
            /\ ~tr[p].fsChanged
            /\ tr[p].commits = 0
C8_Witness ==
    \E p, q \in Procs :
        /\ IsSave(p) /\ pc[p] = "done"
        /\ cmd[p].req.key = EmptyStr /\ cmd[p].req.bucket # EmptyStr /\ cmd[p].req.dir # EmptyStr
        /\ IsRestore(q) /\ pc[q] = "done"
        /\ cmd[q].req.keys = << >> /\ cmd[q].req.bucket # EmptyStr /\ cmd[q].req.dir # EmptyStr
        /\ HasKind(retErr[p], "InvalidArgument")
        /\ HasKind(retErr[q], "InvalidArgument")

\* C9: a Save or Restore one of whose steps ran with ctx cancelled returns
\* an error that carries the cancellation, and has closed every stream it
\* opened.
C9_CancelledReturnsCancelled ==
    \A p \in Procs :
        (pc[p] = "done" /\ (IsSave(p) \/ IsRestore(p)) /\ tr[p].sawCancel) =>
            /\ HasKind(retErr[p], "Cancelled")
            /\ tr[p].closed = tr[p].opened

\* C10 as claimed: two calls of HashFiles on the same list return the same
\* digest, and for files f1 and f2 of different contents the calls on
\* <<f1, f2>> and <<f2, f1>> return different digests.
BothHashed == hpc = "done" /\ hprev # None /\ hret.err = NoErr /\ hprev.ret.err = NoErr
Swapped ==
    /\ Len(hpaths) = 2
    /\ hprev.paths = <<hpaths[2], hpaths[1]>>
    /\ ~hdisk[hpaths[1]].isDir
    /\ ~hdisk[hpaths[2]].isDir
Deterministic == (BothHashed /\ hprev.paths = hpaths) => hret.digest = hprev.ret.digest
C10_OrderSensitiveAsClaimed ==
    /\ Deterministic
    /\ (BothHashed /\ Swapped /\ hdisk[hpaths[1]].data # hdisk[hpaths[2]].data) =>
            hret.digest # hprev.ret.digest

\* C10 amended: two calls of HashFiles on the same list return the same
\* digest, and the calls on <<f1, f2>> and <<f2, f1>> return different
\* digests whenever the contents concatenated in the two orders differ.
ConcatDiffers ==
    hdisk[hpaths[1]].data \o hdisk[hpaths[2]].data
        # hdisk[hpaths[2]].data \o hdisk[hpaths[1]].data
C10_OrderSensitive ==
    /\ Deterministic
    /\ (BothHashed /\ Swapped /\ ConcatDiffers) => hret.digest # hprev.ret.digest
C10_Witness ==
    /\ BothHashed
    /\ Swapped
    /\ hpaths[1] # hpaths[2]
    /\ ConcatDiffers
    /\ hret.digest # hprev.ret.digest
    /\ Len(hret.digest) = 2 * DigestSize

\* C11: a call of HashFiles on a list that holds directories, none of whose
\* file operations failed, returns no error, and its digest is the digest of
\* the call on the same list with the directories removed.
FilesOnly(paths) == SelectSeq(paths, LAMBDA n : ~hdisk[n].isDir)
HasDirectory(paths) == \E i \in 1..Len(paths) : hdisk[paths[i]].isDir
C11_DirectoriesSkipped ==
    /\ (hpc = "done" /\ faults = 0) => hret.err = NoErr
    /\ (BothHashed /\ HasDirectory(hprev.paths) /\ hpaths = FilesOnly(hprev.paths)) =>
            hret.digest = hprev.ret.digest
C11_Witness ==
    /\ BothHashed
    /\ faults = 0
    /\ Len(hprev.paths) = 2
    /\ HasDirectory(hprev.paths)
    /\ Len(hpaths) = 1
    /\ hpaths = FilesOnly(hprev.paths)
    /\ hret.digest = hprev.ret.digest

\* C12: a call of HashFiles that returns an error returns the empty digest,
\* every part of the error names the path the loop stopped at, and the digest
\* state holds the files before that path (and that path's own bytes when
\* only its close failed) and nothing of the later paths; a call that returns
\* no error went through every path.
RECURSIVE Concat(_)
Concat(paths) ==
    IF paths = << >> THEN << >> ELSE hdisk[Head(paths)].data \o Concat(Tail(paths))
HashFailed == hpc = "done" /\ hret.err # NoErr
C12_ErrorAbortsWithoutDigest ==
    /\ HashFailed =>
            /\ hret.digest = << >>
            /\ hi \in 1..Len(hpaths)
            /\ \A i \in 1..Len(hret.err) :
                    hret.err[i].kind = "IOError" /\ hret.err[i].what = <<hpaths[hi]>>
            /\ h \in {Concat(SubSeq(hpaths, 1, hi - 1)), Concat(SubSeq(hpaths, 1, hi))}
    /\ (hpc = "done" /\ hret.err = NoErr) => hi = Len(hpaths) + 1
C12_Witness ==
    /\ HashFailed
    /\ Len(hpaths) = 2
    /\ hi = 1
    /\ ~hdisk[hpaths[2]].isDir
    /\ h = << >>
    /\ hret.digest = << >>

\* C13: once Restore has listed all its keys, its candidate is the first
\* object of the enumeration (keys in input order, then the listing order of
\* each key) that carries the latest updatedAt of the enumeration: every
\* object enumerated before it is strictly older, none is newer.
Enumerated(p, i) == store[enum[p][i]]
C13_TiesKeepFirstEnumerated ==
    \A p \in Procs :
        (ListingDone(p) /\ enum[p] # << >>) =>
            /\ match[p] # None
            /\ \E i \in 1..Len(enum[p]) :
                    /\ enum[p][i] = match[p].name
                    /\ \A j \in 1..(i - 1) : Enumerated(p, j).updated < match[p].updated
            /\ \A j \in 1..Len(enum[p]) : Enumerated(p, j).updated <= match[p].updated
C13_Witness ==
    \E p \in Procs :
        /\ ListingDone(p)
        /\ gcsr[p] # None
        /\ \E i, j \in 1..Len(enum[p]) :
                /\ i < j
                /\ enum[p][i] = match[p].name
                /\ enum[p][j] # match[p].name
                /\ Enumerated(p, j).updated = match[p].updated

\* C14: when Save's deferred Close runs and the write stream has failed for
\* a reason other than the create-if-absent precondition, or the commit does
\* not happen although no object has the key (so the precondition is not
\* what failed), Save returns an error carrying that failure and the store
\* is unchanged; such a failure is never turned into success.
OtherWriteFailure(p) == gcsw[p].err \notin {NoKind, "PreconditionFailed"}
C14_OtherWriteFailuresPropagate ==
    [][\A p \in Procs :
        (/\ IsSave(p)
         /\ pc[p] = "save_close"
         /\ pc'[p] = "done"
         /\ \/ OtherWriteFailure(p)
            \/ DoesNotExist(cmd[p].req.key) /\ tr'[p].commits = tr[p].commits)
        => /\ retErr'[p] # NoErr
           /\ HasKind(retErr'[p], "Transport") \/ HasKind(retErr'[p], "Cancelled")
           /\ store' = store]_vars
C14_Witness ==
    \E p \in Procs :
        /\ IsSave(p)
        /\ pc[p] = "done"
        /\ tr[p].opened = 1
        /\ tr[p].closed = 1
        /\ tr[p].commits = 0
        /\ ~tr[p].sawCancel
        /\ store[cmd[p].req.key] = None
        /\ Len(retErr[p]) = 1
        /\ retErr[p][1].op = "close"
        /\ retErr[p][1].kind = "Transport"

\* C15: a call closes the stream it opened exactly once before it returns;
\* when the Close fails after an earlier failure of the call (Save: of the
\* archive; Restore: of the extraction) the returned error carries the
\* earlier failure and the Close failure, and when the Close fails with no
\* earlier failure the returned error is the Close failure.
Carries(errs, e) == \E i \in 1..Len(errs) : errs[i] = e
CloseFailed(errs) == errs # NoErr /\ errs[Len(errs)].op = "close"
ClosedOnce ==
    \A p \in Procs :
        /\ tr[p].closed <= tr[p].opened
        /\ tr[p].opened <= 1
        /\ pc[p] = "done" => tr[p].closed = tr[p].opened
SaveCloseCombines(p) ==
    (IsSave(p) /\ pc[p] = "save_close" /\ pc'[p] = "done" /\ CloseFailed(retErr'[p])) =>
        /\ Len(retErr'[p]) = Len(retErr[p]) + 1
        /\ \A i \in 1..Len(retErr[p]) : Carries(retErr'[p], retErr[p][i])
RestoreCloseCombines(p) ==
    (IsRestore(p) /\ pc[p] = "restore_close" /\ pc'[p] = "done" /\ CloseFailed(retErr'[p])) =>
        IF tr[p].extract # None
        THEN Len(retErr'[p]) = 2 /\ Carries(retErr'[p], tr[p].extract)
        ELSE Len(retErr'[p]) = 1
C15_ClosedOnceErrorsCombined ==
    /\ []ClosedOnce
    /\ [][\A p \in Procs : SaveCloseCombines(p) /\ RestoreCloseCombines(p)]_vars

\* C16: in no step of Restore on a regular-file entry does the file take the
\* entry's recorded mode without holding the entry's content: the mode is
\* applied only after the content was copied.
RegEntryAt(p) ==
    /\ IsRestore(p)
    /\ pc[p] = "restore_extract"
    /\ ei[p] <= Len(gcsr[p].entries)
    /\ gcsr[p].entries[ei[p]].flag \in RegFlags
ModeApplied(before, after, fpath, e) ==
    /\ fpath \in DOMAIN after
    /\ after[fpath].type = "reg"
    /\ after[fpath].mode = e.mode
    /\ CreateMode(before, fpath) # e.mode
C16_ModeAfterContent ==
    [][\A p \in Procs :
        RegEntryAt(p) =>
            LET e == gcsr[p].entries[ei[p]]
                fpath == Join(<< >>, e.name)
            IN ModeApplied(fs[p], fs'[p], fpath, e) => fs'[p][fpath].data = e.data]_vars

\* C17: after a Restore that no fault or cancellation disturbed, every
\* hardlink entry of the restored archive whose recorded target is the name
\* of a regular-file entry earlier in the archive, and whose own path was
\* free in dir, exists under dir as a link to the restored target: the same
\* file as the one at the target's path under dir.
Restored(p) == store[match[p].name].content.entries
LinkToEarlier(p, i) ==
    /\ Restored(p)[i].flag = "Link"
    /\ \E j \in 1..(i - 1) :
            /\ Restored(p)[j].flag \in RegFlags
            /\ Restored(p)[j].name = Restored(p)[i].link
    /\ Restored(p)[i].name \notin DOMAIN tr[p].dir0
C17_HardlinkResolvedAgainstDir ==
    \A p \in Procs :
        (/\ IsRestore(p)
         /\ pc[p] = "done"
         /\ tr[p].closed = 1
         /\ Undisturbed(p)) =>
            \A i \in 1..Len(Restored(p)) :
                LinkToEarlier(p, i) =>
                    /\ Restored(p)[i].name \in DOMAIN fs[p]
                    /\ fs[p][Restored(p)[i].name] = fs[p][Restored(p)[i].link]

\* C18: a Save that has returned an error has committed no object under its
\* key (no empty or truncated archive of its making is in the store).
C18_FailedSaveCommitsNothing ==
    \A p \in Procs :
        (IsSave(p) /\ pc[p] = "done" /\ retErr[p] # NoErr) =>
            tr[p].commits = 0

\* C19: in the step of Save that probes the key, a probe that fails (a
\* transport fault, or ctx cancelled) makes Save return an error at once,
\* with no writer opened, dir not read and the store unchanged; the writer
\* is opened only after a probe that was answered with not-found.
ProbeStep(p) == IsSave(p) /\ pc[p] = "save_probe" /\ pc'[p] # pc[p]
ProbeErrored(p) == cancelled[p] \/ tr'[p].sawFault
C19_ProbeErrorStopsSave ==
    [][\A p \in Procs :
        ProbeStep(p) =>
            /\ ProbeErrored(p) =>
                    /\ pc'[p] = "done"
                    /\ retErr'[p] # NoErr
                    /\ gcsw'[p] = None
                    /\ tr'[p].opened = 0
                    /\ ~tr'[p].readDir
                    /\ store' = store
            /\ tr'[p].opened > tr[p].opened =>
                    /\ ~ProbeErrored(p)
                    /\ store[cmd[p].req.key] = None
                    /\ gcsw'[p] # None]_vars
C19_Witness ==
    \E p \in Procs :
        /\ IsSave(p)
        /\ pc[p] = "done"
        /\ tr[p].sawFault
        /\ ~tr[p].sawCancel
        /\ tr[p].storeCalls = 1
        /\ tr[p].opened = 0
        /\ ~tr[p].readDir
        /\ retErr[p] = <<Err("probe", "Transport", <<cmd[p].req.key>>)>>
        /\ store[cmd[p].req.key] = None

\* C20: in a step of Restore that lists a key, a listing that fails (a
\* transport fault, or ctx cancelled) makes Restore return an error naming
\* the key at once, whatever candidate the earlier keys gave: dir is as it
\* was (not created, nothing written) and no read stream is opened.
ListStep(p) ==
    /\ IsRestore(p)
    /\ pc[p] = "restore_list"
    /\ tr'[p].storeCalls = tr[p].storeCalls + 1
C20_ListFailureStopsRestore ==
    [][\A p \in Procs :
        (ListStep(p) /\ (cancelled[p] \/ tr'[p].sawFault)) =>
            /\ pc'[p] = "done"
            /\ Len(retErr'[p]) = 1
            /\ retErr'[p][1].op = "list"
            /\ retErr'[p][1].what = <<KeysOf(p)[ki[p]]>>
            /\ gcsr'[p] = None
            /\ tr'[p].opened = 0
            /\ ~tr'[p].fsChanged
            /\ fs'[p] = tr[p].dir0]_vars
C20_Witness ==
    \E p \in Procs :
        /\ IsRestore(p)
        /\ pc[p] = "done"
        /\ Len(KeysOf(p)) = 2
        /\ ki[p] = 2
        /\ match[p] # None
        /\ tr[p].sawFault
        /\ retErr[p] = <<Err("list", "Transport", <<KeysOf(p)[2]>>)>>
        /\ tr[p].opened = 0
        /\ fs[p] = NoDir

====
